---- MODULE Spec2Model ----
(***************************************************************************)
(* A model of the accounts-payable aging reports of ramp_aging_report:     *)
(* src/src/utils.py (cutoff conversion, aging classification, column       *)
(* names) and src/src/report.py (openness filter, entity and combined      *)
(* aging tables, reconciliation of the Ramp and NetSuite reports).         *)
(*                                                                         *)
(* Strings are TLA+ strings, taken apart with SubSeq and built with \o.    *)
(* A datetime is a record [nat, day, sec]: nat is TRUE for pandas' NaT,    *)
(* day counts days since 1970-01-01 and sec the seconds into that day.     *)
(* A float is a record [nan, w, t]: w whole units and t ten-millionths.    *)
(***************************************************************************)
EXTENDS Integers, Sequences, FiniteSets, TLC

VARIABLES
    pc,                   \* where the modelled call is
    specified_date,       \* the DD-MM-YYYY argument of the report generators
    cut_off_date_iso8601, \* report.py:51
    cut_off_date,         \* report.py:52
    sorted_columns,       \* report.py:100
    df,                   \* the rows handed to the function under study
    df_open,              \* report.py:81, the result of filter_open_as_of
    aging_bucket,         \* utils.py:7, the label categorize_aging returned
    entity_idx,           \* report.py:58, the position of the entity loop
    outcome,              \* per entity: what the loop did for it
    files,                \* the names of the CSV files written
    combined_bills_data,  \* report.py:145
    aging_report,         \* report.py:91-116 and 182-207, the table last built
    ramp_report,          \* the file at ramp_report_path
    netsuite_report,      \* the file at netsuite_report_path
    result                \* the value generate_reconciliation_report returned

vars == <<pc, specified_date, cut_off_date_iso8601, cut_off_date, sorted_columns,
          df, df_open, aging_bucket, entity_idx, outcome, files,
          combined_bills_data, aging_report, ramp_report, netsuite_report, result>>

-----------------------------------------------------------------------------
(* Characters and numbers in strings *)

Digit(c) ==
    CASE c = "0" -> 0 [] c = "1" -> 1 [] c = "2" -> 2 [] c = "3" -> 3
      [] c = "4" -> 4 [] c = "5" -> 5 [] c = "6" -> 6 [] c = "7" -> 7
      [] c = "8" -> 8 [] c = "9" -> 9 [] OTHER -> -1

CharAt(s, i) == SubSeq(s, i, i)

IsDigits(s) == Len(s) > 0 /\ \A i \in 1..Len(s) : Digit(CharAt(s, i)) >= 0

RECURSIVE ToInt(_)
ToInt(s) ==
    IF Len(s) = 0 THEN 0
    ELSE 10 * ToInt(SubSeq(s, 1, Len(s) - 1)) + Digit(CharAt(s, Len(s)))

\* %02d, %04d
Pad(n, width) ==
    LET t == ToString(n)
        RECURSIVE Zeros(_)
        Zeros(k) == IF k <= 0 THEN "" ELSE "0" \o Zeros(k - 1)
    IN  Zeros(width - Len(t)) \o t

\* the position of the first `c` in s at or after i, 0 when there is none
RECURSIVE Find(_, _, _)
Find(s, c, i) ==
    IF i > Len(s) THEN 0
    ELSE IF CharAt(s, i) = c THEN i
    ELSE Find(s, c, i + 1)

\* the characters the model's strings use, in code point order
Alphabet ==
    " $(),-./0123456789:>ABCDEFGHIJKLMNOPQRSTUVWXYZ_abcdefghijklmnopqrstuvwxyz"

\* ord(c) up to the order: the position of c in Alphabet
CodeOf == [c \in {CharAt(Alphabet, i) : i \in 1..Len(Alphabet)} |->
              Find(Alphabet, c, 1)] @@ <<>>

Code(c) == CodeOf[c]

\* a < b as Python compares str: by code point, a proper prefix first
RECURSIVE StrLess(_, _)
StrLess(a, b) ==
    IF Len(b) = 0 THEN FALSE
    ELSE IF Len(a) = 0 THEN TRUE
    ELSE IF Code(Head(a)) # Code(Head(b)) THEN Code(Head(a)) < Code(Head(b))
    ELSE StrLess(Tail(a), Tail(b))

Uppers == "ABCDEFGHIJKLMNOPQRSTUVWXYZ"
Lowers == "abcdefghijklmnopqrstuvwxyz"

\* s.lower()
RECURSIVE Lower(_)
Lower(s) ==
    IF Len(s) = 0 THEN ""
    ELSE LET k == Find(Uppers, Head(s), 1)
         IN  (IF k > 0 THEN CharAt(Lowers, k) ELSE Head(s)) \o Lower(Tail(s))

\* s.replace(old, new) for a one-character old
RECURSIVE ReplaceChar(_, _, _)
ReplaceChar(s, old, new) ==
    IF Len(s) = 0 THEN ""
    ELSE (IF Head(s) = old THEN new ELSE Head(s)) \o ReplaceChar(Tail(s), old, new)

\* s.strip()
RECURSIVE Strip(_)
Strip(s) ==
    IF Len(s) = 0 THEN ""
    ELSE IF Head(s) = " " THEN Strip(Tail(s))
    ELSE IF CharAt(s, Len(s)) = " " THEN Strip(SubSeq(s, 1, Len(s) - 1))
    ELSE s

\* s.startswith(prefix)
StartsWith(s, prefix) ==
    Len(s) >= Len(prefix) /\ SubSeq(s, 1, Len(prefix)) = prefix

\* the elements of a set of strings as a sequence in ascending order
RECURSIVE SortedStrings(_)
SortedStrings(S) ==
    IF S = {} THEN <<>>
    ELSE LET least == CHOOSE x \in S : \A y \in S \ {x} : StrLess(x, y)
         IN  <<least>> \o SortedStrings(S \ {least})

Range(q) == {q[i] : i \in 1..Len(q)}

Front(q) == SubSeq(q, 1, Len(q) - 1)

\* a sequence given by a rule, as the tuple of its elements
Forced(q) == SubSeq(q, 1, Len(q))

\* the sum of a sequence of numbers
RECURSIVE SumSeq(_)
SumSeq(q) == IF Len(q) = 0 THEN 0 ELSE Head(q) + SumSeq(Tail(q))

-----------------------------------------------------------------------------
(* The proleptic Gregorian calendar of datetime *)

SecondsPerDay == 24 * 60 * 60

IsLeap(y) == (y % 4 = 0 /\ y % 100 # 0) \/ y % 400 = 0

DaysInMonth(y, m) ==
    CASE m \in {1, 3, 5, 7, 8, 10, 12} -> 31
      [] m \in {4, 6, 9, 11} -> 30
      [] OTHER -> IF IsLeap(y) THEN 29 ELSE 28

ValidDate(y, m, d) == y \in 1..9999 /\ m \in 1..12 /\ d \in 1..DaysInMonth(y, m)

\* days from 1970-01-01 to y-m-d
DaysFromCivil(y, m, d) ==
    LET yy  == IF m <= 2 THEN y - 1 ELSE y
        era == yy \div 400
        yoe == yy - era * 400
        mp  == IF m > 2 THEN m - 3 ELSE m + 9
        doy == (153 * mp + 2) \div 5 + d - 1
        doe == yoe * 365 + yoe \div 4 - yoe \div 100 + doy
    IN  era * 146097 + doe - 719468

\* the date, [y, m, d], that is n days from 1970-01-01
CivilFromDays(n) ==
    LET z   == n + 719468
        era == z \div 146097
        doe == z - era * 146097
        yoe == (doe - doe \div 1460 + doe \div 36524 - doe \div 146096) \div 365
        doy == doe - (365 * yoe + yoe \div 4 - yoe \div 100)
        mp  == (5 * doy + 2) \div 153
        d   == doy - (153 * mp + 2) \div 5 + 1
        m   == IF mp < 10 THEN mp + 3 ELSE mp - 9
        y   == yoe + era * 400 + (IF m <= 2 THEN 1 ELSE 0)
    IN  [y |-> y, m |-> m, d |-> d]

NaT == [nat |-> TRUE, day |-> 0, sec |-> 0]

DateTime(day, sec) == [nat |-> FALSE, day |-> day, sec |-> sec]

\* dt - timedelta(days=n)
MinusDays(dt, n) == DateTime(dt.day - n, dt.sec)

\* dt.strftime("%Y-%m-%d")
StrfDate(dt) ==
    LET c == CivilFromDays(dt.day)
    IN  Pad(c.y, 4) \o "-" \o Pad(c.m, 2) \o "-" \o Pad(c.d, 2)

\* dt.strftime("%H:%M:%S")
StrfTime(dt) ==
    Pad(dt.sec \div 3600, 2) \o ":" \o Pad((dt.sec % 3600) \div 60, 2)
        \o ":" \o Pad(dt.sec % 60, 2)

\* datetime.strptime(s, "%Y-%m-%d"): NaT stands for the ValueError
StrpDate(s) ==
    IF /\ Len(s) = 10
       /\ IsDigits(SubSeq(s, 1, 4)) /\ CharAt(s, 5) = "-"
       /\ IsDigits(SubSeq(s, 6, 7)) /\ CharAt(s, 8) = "-"
       /\ IsDigits(SubSeq(s, 9, 10))
       /\ ValidDate(ToInt(SubSeq(s, 1, 4)), ToInt(SubSeq(s, 6, 7)),
                    ToInt(SubSeq(s, 9, 10)))
    THEN DateTime(DaysFromCivil(ToInt(SubSeq(s, 1, 4)), ToInt(SubSeq(s, 6, 7)),
                                ToInt(SubSeq(s, 9, 10))), 0)
    ELSE NaT

\* the seconds into the day of "HH:MM:SS", -1 when it is no time of day
StrpTime(s) ==
    IF /\ Len(s) = 8
       /\ IsDigits(SubSeq(s, 1, 2)) /\ CharAt(s, 3) = ":"
       /\ IsDigits(SubSeq(s, 4, 5)) /\ CharAt(s, 6) = ":"
       /\ IsDigits(SubSeq(s, 7, 8))
       /\ ToInt(SubSeq(s, 1, 2)) < 24 /\ ToInt(SubSeq(s, 4, 5)) < 60
       /\ ToInt(SubSeq(s, 7, 8)) < 60
    THEN ToInt(SubSeq(s, 1, 2)) * 3600 + ToInt(SubSeq(s, 4, 5)) * 60
             + ToInt(SubSeq(s, 7, 8))
    ELSE -1

-----------------------------------------------------------------------------
(* src/src/utils.py *)

\* datetime.strptime(date_str, "%d-%m-%Y"): day and month of one or two
\* digits, a year of four; NaT stands for the ValueError
StrpDayMonthYear(date_str) ==
    LET p1 == Find(date_str, "-", 1)
        p2 == IF p1 = 0 THEN 0 ELSE Find(date_str, "-", p1 + 1)
        dd == SubSeq(date_str, 1, p1 - 1)
        mm == SubSeq(date_str, p1 + 1, p2 - 1)
        yy == SubSeq(date_str, p2 + 1, Len(date_str))
    IN  IF /\ p1 > 0 /\ p2 > 0
           /\ Len(dd) \in 1..2 /\ IsDigits(dd)
           /\ Len(mm) \in 1..2 /\ IsDigits(mm)
           /\ Len(yy) = 4 /\ IsDigits(yy)
           /\ ValidDate(ToInt(yy), ToInt(mm), ToInt(dd))
        THEN DateTime(DaysFromCivil(ToInt(yy), ToInt(mm), ToInt(dd)), 0)
        ELSE NaT

\* convert_to_iso8601 with the cutoff at the first instant of the day
convert_to_iso8601_StartOfDay(date_str) ==
    LET dt == StrpDayMonthYear(date_str)
    IN  IF dt.nat THEN [ok |-> FALSE, value |-> "ValueError"]
        ELSE [ok |-> TRUE, value |-> StrfDate(dt) \o "T00:00:00Z"]

\* convert_to_iso8601: [ok, value]; ok is FALSE when strptime raises
convert_to_iso8601(date_str) ==
    LET dt == StrpDayMonthYear(date_str)
    IN  IF dt.nat THEN [ok |-> FALSE, value |-> "ValueError"]
        ELSE [ok |-> TRUE, value |-> StrfDate(dt) \o "T23:59:59Z"]

\* datetime.strptime(s, "%Y-%m-%dT%H:%M:%SZ"), report.py:52
StrpIso8601Z(s) ==
    LET d == StrpDate(SubSeq(s, 1, 10))
        t == StrpTime(SubSeq(s, 12, 19))
    IN  IF Len(s) = 20 /\ CharAt(s, 11) = "T" /\ CharAt(s, 20) = "Z"
           /\ ~d.nat /\ t >= 0
        THEN DateTime(d.day, t)
        ELSE NaT

\* (a - b).days: the timedelta is normalised to 0 <= seconds < 86400, so
\* days is the floor; NaT.days is nan, here [nan |-> TRUE]
TimedeltaDays(a, b) ==
    IF a.nat \/ b.nat THEN [nan |-> TRUE, v |-> 0]
    ELSE [nan |-> FALSE,
          v |-> (a.day - b.day) + ((a.sec - b.sec) \div SecondsPerDay)]

\* delta < k, FALSE for nan
DeltaLess(delta, k) == ~delta.nan /\ delta.v < k

Label30(cut_off) ==
    StrfDate(MinusDays(cut_off, 29)) \o " - " \o StrfDate(cut_off) \o " (30)"

Label60(cut_off) ==
    StrfDate(MinusDays(cut_off, 59)) \o " - " \o StrfDate(MinusDays(cut_off, 30))
        \o " (60)"

Label90(cut_off) ==
    StrfDate(MinusDays(cut_off, 89)) \o " - " \o StrfDate(MinusDays(cut_off, 60))
        \o " (90)"

Label90Plus(cut_off) ==
    "Before " \o StrfDate(MinusDays(cut_off, 90)) \o " (>90)"

\* categorize_aging with the 30-day boundary closed: delta <= 30
categorize_aging_Le30(row, cut_off) ==
    LET due_date == row.due_at
        delta    == TimedeltaDays(cut_off, due_date)
    IN  IF DeltaLess(delta, 0) THEN "Current"
        ELSE IF DeltaLess(delta, 31) THEN Label30(cut_off)
        ELSE IF DeltaLess(delta, 60) THEN Label60(cut_off)
        ELSE IF DeltaLess(delta, 90) THEN Label90(cut_off)
        ELSE Label90Plus(cut_off)

categorize_aging(row, cut_off) ==
    LET due_date == row.due_at
        delta    == TimedeltaDays(cut_off, due_date)
    IN  IF DeltaLess(delta, 0) THEN "Current"
        ELSE IF DeltaLess(delta, 30) THEN Label30(cut_off)
        ELSE IF DeltaLess(delta, 60) THEN Label60(cut_off)
        ELSE IF DeltaLess(delta, 90) THEN Label90(cut_off)
        ELSE Label90Plus(cut_off)

\* generate_column_names with the (60) column starting 60 days back, not 59
generate_column_names_Start60(cut_off) ==
    LET current_col == "Current"
        col_30      == StrfDate(MinusDays(cut_off, 29)) \o " - "
                           \o StrfDate(cut_off) \o " (30)"
        col_60      == StrfDate(MinusDays(cut_off, 60)) \o " - "
                           \o StrfDate(MinusDays(cut_off, 30)) \o " (60)"
        col_90      == StrfDate(MinusDays(cut_off, 89)) \o " - "
                           \o StrfDate(MinusDays(cut_off, 60)) \o " (90)"
        col_90_plus == "Before " \o StrfDate(MinusDays(cut_off, 90)) \o " (>90)"
    IN  <<"Vendor Name", current_col, col_30, col_60, col_90, col_90_plus, "Total">>

generate_column_names(cut_off) ==
    LET current_col == "Current"
        col_30      == StrfDate(MinusDays(cut_off, 29)) \o " - "
                           \o StrfDate(cut_off) \o " (30)"
        col_60      == StrfDate(MinusDays(cut_off, 59)) \o " - "
                           \o StrfDate(MinusDays(cut_off, 30)) \o " (60)"
        col_90      == StrfDate(MinusDays(cut_off, 89)) \o " - "
                           \o StrfDate(MinusDays(cut_off, 60)) \o " (90)"
        col_90_plus == "Before " \o StrfDate(MinusDays(cut_off, 90)) \o " (>90)"
    IN  <<"Vendor Name", current_col, col_30, col_60, col_90, col_90_plus, "Total">>

-----------------------------------------------------------------------------
(* pandas at the edges of src/src/report.py *)

None == "None"

\* pd.to_datetime(v, errors='coerce') and .dt.tz_localize(None) for one value
\* of the column: an ISO date, or an ISO date and time with an optional Z or
\* +00:00; None and whatever does not parse become NaT
ToDatetime(v) ==
    IF v = None THEN NaT
    ELSE IF Len(v) = 10 THEN StrpDate(v)
    ELSE IF Len(v) \in {19, 20, 25}
            /\ CharAt(v, 11) = "T"
            /\ (Len(v) = 20 => CharAt(v, 20) = "Z")
            /\ (Len(v) = 25 => SubSeq(v, 20, 25) = "+00:00")
    THEN LET d == StrpDate(SubSeq(v, 1, 10))
             t == StrpTime(SubSeq(v, 12, 19))
         IN  IF d.nat \/ t < 0 THEN NaT ELSE DateTime(d.day, t)
    ELSE NaT

\* what the API sends for a moment: its ISO 8601 text
IsoFormat(dt) == StrfDate(dt) \o "T" \o StrfTime(dt)

-----------------------------------------------------------------------------
(* src/src/report.py: filter_open_as_of *)

\* a > b for two datetimes that are not NaT
After(a, b) == a.day > b.day \/ (a.day = b.day /\ a.sec > b.sec)

\* report.py:20: the value the lambda picks for one row. A payment is
\* [is_dict, has_key, effective_date]: whether the cell is a dict, whether the
\* dict has the key 'effective_date', and the value under it.
EffectiveDateValue(x) ==
    IF x.payment.is_dict /\ x.payment.has_key
    THEN x.payment.effective_date
    ELSE x.paid_at

\* report.py:18-24: the 'effective_date' column
WithEffectiveDate(frame) ==
    Forced([i \in 1..Len(frame) |->
        frame[i] @@ ("effective_date" :> ToDatetime(EffectiveDateValue(frame[i])))])

\* report.py:27
open_as_of_cutoff(x, cut_off) ==
    x.effective_date.nat \/ After(x.effective_date, cut_off)

\* report.py:12-30: the rows open as of the cutoff, in the frame's order
filter_open_as_of(frame, cut_off) ==
    LET Open(x) == open_as_of_cutoff(x, cut_off)
    IN  SelectSeq(WithEffectiveDate(frame), Open)

-----------------------------------------------------------------------------
(* src/src/report.py: the aging table of generate_entity_reports and       *)
(* generate_combined_report                                                *)


\* report.py:78: whether the vendor lambda raises. A vendor cell is
\* [kind, has_remote_name, value] with kind "dict", "str" or "none".
VendorRaises(b) ==
    ~ \/ (b.vendor.kind = "dict" /\ b.vendor.has_remote_name)
      \/ b.vendor.kind = "str"

\* report.py:73-78 for one bill: the dates parsed, the amount in major units,
\* the vendor name stripped. An amount cell is [is_dict, amount].
Normalize(b) ==
    [vendor_name |-> Strip(b.vendor.value),
     amount      |-> b.amount.amount \div 100,
     due_at      |-> ToDatetime(b.due_at),
     issued_at   |-> ToDatetime(b.issued_at),
     payment     |-> b.payment,
     paid_at     |-> b.paid_at,
     id          |-> b.id]

NormalizeAll(bills) == Forced([k \in 1..Len(bills) |-> Normalize(bills[k])])

\* report.py:88: the 'aging_bucket' column
WithAgingBucket(rows, cut_off) ==
    Forced([i \in 1..Len(rows) |->
        [vendor_name  |-> rows[i].vendor_name,
         amount       |-> rows[i].amount,
         due_at       |-> rows[i].due_at,
         id           |-> rows[i].id,
         aging_bucket |-> categorize_aging(rows[i], cut_off)]])

\* report.py:91: the sum of one (vendor, bucket) group
RECURSIVE GroupSum(_, _, _)
GroupSum(rows, vendor, bucket) ==
    IF Len(rows) = 0 THEN 0
    ELSE (IF Head(rows).vendor_name = vendor /\ Head(rows).aging_bucket = bucket
          THEN Head(rows).amount ELSE 0)
             + GroupSum(Tail(rows), vendor, bucket)

\* A table is [columns, rows]: the column names, and under them the rows, each
\* a tuple of cells in the order of the columns.

\* report.py:91-94: groupby, sum, unstack(fill_value=0), reset_index: one row
\* per vendor and one column per bucket found, both in ascending order
Pivot(rows) ==
    LET vendors == SortedStrings({r.vendor_name : r \in Range(rows)})
        buckets == SortedStrings({r.aging_bucket : r \in Range(rows)})
    IN  [columns |-> <<"Vendor Name">> \o buckets,
         rows    |-> Forced([i \in 1..Len(vendors) |->
                        <<vendors[i]>> \o
                            Forced([k \in 1..Len(buckets) |->
                                GroupSum(rows, vendors[i], buckets[k])])])]

\* report.py:97: the sum of iloc[:, 1:] as the last column
WithTotal(table) ==
    [columns |-> Append(table.columns, "Total"),
     rows    |-> Forced([i \in 1..Len(table.rows) |->
                    Append(table.rows[i], SumSeq(Tail(table.rows[i])))])]

\* the position of a name among the columns, 0 when it is not one of them
RECURSIVE ColumnIndex(_, _)
ColumnIndex(columns, name) ==
    IF Len(columns) = 0 THEN 0
    ELSE IF columns[Len(columns)] = name /\ ColumnIndex(Front(columns), name) = 0
    THEN Len(columns)
    ELSE ColumnIndex(Front(columns), name)

\* report.py:103: reindex(columns=..., fill_value=0)
Reindex(table, columns) ==
    [columns |-> columns,
     rows    |-> Forced([i \in 1..Len(table.rows) |->
                    Forced([k \in 1..Len(columns) |->
                        LET at == ColumnIndex(table.columns, columns[k])
                        IN  IF at > 0 THEN table.rows[i][at] ELSE 0])])]

\* the sorted rows with x put after the rows whose key is not above its own
InsertByVendorLower(sorted, x) ==
    LET k == Cardinality({i \in 1..Len(sorted) :
                             ~StrLess(Lower(x[1]), Lower(sorted[i][1]))})
    IN  SubSeq(sorted, 1, k) \o <<x>> \o SubSeq(sorted, k + 1, Len(sorted))

\* report.py:106-109: rows in ascending order of the lowered vendor name,
\* equal keys in the order they had
RECURSIVE SortByVendorLower(_)
SortByVendorLower(rows) ==
    IF Len(rows) = 0 THEN <<>>
    ELSE InsertByVendorLower(SortByVendorLower(Front(rows)), rows[Len(rows)])

\* the sum of column k over the rows
RECURSIVE ColumnSum(_, _)
ColumnSum(rows, k) ==
    IF Len(rows) = 0 THEN 0 ELSE Head(rows)[k] + ColumnSum(Tail(rows), k)

\* report.py:112-116: the row of column sums, named Total, appended
WithTotalsRow(table) ==
    LET totals_row ==
            <<"Total">> \o Forced([k \in 1..(Len(table.columns) - 1) |->
                                      ColumnSum(table.rows, k + 1)])
    IN  [columns |-> table.columns, rows |-> Append(table.rows, totals_row)]

\* report.py:88-116, repeated as report.py:179-207
AgingReport(open_rows, cut_off) ==
    LET bucketed  == WithAgingBucket(open_rows, cut_off)
        pivoted   == WithTotal(Pivot(bucketed))
        reindexed == Reindex(pivoted, generate_column_names(cut_off))
        sorted    == [columns |-> reindexed.columns,
                      rows    |-> SortByVendorLower(reindexed.rows)]
    IN  WithTotalsRow(sorted)

\* report.py:38 and 119
FileStem(entity_name) == Lower(ReplaceChar(entity_name, " ", "_"))

RawFileName(entity_name, date) ==
    FileStem(entity_name) \o "_raw_bills_data_as_of_" \o date \o ".csv"

ReportFileName(entity_name, date) ==
    FileStem(entity_name) \o "_open_bills_aging_report_as_of_" \o date \o ".csv"

CombinedFileName(date) ==
    "combined_open_bills_aging_report_as_of_" \o date \o ".csv"

-----------------------------------------------------------------------------
(* src/src/report.py: generate_reconciliation_report *)

\* A float is [nan, w, t]: w whole units and t ten-millionths, 0 <= t < 10^7,
\* so that the value is w + t / 10^7; nan is TRUE for NaN.
TicksPerUnit == 10 * 1000 * 1000

\* epsilon=1e-6 of report.py:231, in ten-millionths
Epsilon == 10

\* report.py:248: the rows of the title and header block
HeaderRows == 11

\* report.py:251: the cells taken from a row
ReportColumns == 7

NaN == [nan |-> TRUE, w |-> 0, t |-> 0]

Num(w, t) ==
    [nan |-> FALSE, w |-> w + (t \div TicksPerUnit), t |-> t % TicksPerUnit]

NumSub(a, b) == IF a.nan \/ b.nan THEN NaN ELSE Num(a.w - b.w, a.t - b.t)

NumAdd(a, b) == IF a.nan \/ b.nan THEN NaN ELSE Num(a.w + b.w, a.t + b.t)

\* abs(x) < eps for eps of less than a unit; FALSE for NaN
AbsLess(x, eps) ==
    /\ ~x.nan
    /\ \/ (x.w = 0 /\ x.t < eps)
       \/ (x.w = -1 /\ TicksPerUnit - x.t < eps)

\* report.py:281: lambda x: 0 if abs(x) < epsilon else x
Snap(x, eps) == IF AbsLess(x, eps) THEN Num(0, 0) ELSE x

\* fillna(0) for one cell
FillNa(x) == IF x.nan THEN Num(0, 0) ELSE x

\* Series.sum(): NaN cells are skipped
RECURSIVE NumSum(_)
NumSum(q) ==
    IF Len(q) = 0 THEN Num(0, 0)
    ELSE IF Head(q).nan THEN NumSum(Tail(q))
    ELSE NumAdd(Head(q), NumSum(Tail(q)))

\* report.py:262: str.replace('[$,]', '', regex=True)
RECURSIVE StripCurrency(_)
StripCurrency(s) ==
    IF Len(s) = 0 THEN ""
    ELSE (IF Head(s) \in {"$", ","} THEN "" ELSE Head(s)) \o StripCurrency(Tail(s))

RECURSIVE Pow10(_)
Pow10(n) == IF n = 0 THEN 1 ELSE 10 * Pow10(n - 1)

\* report.py:262: pd.to_numeric(..., errors='coerce') for one cell: an optional
\* sign, digits, and an optional point with up to seven digits; anything else,
\* and the None of a missing cell, is NaN
ToNumeric(cell) ==
    IF cell = None THEN NaN
    ELSE LET text   == StripCurrency(cell)
             neg    == Len(text) > 0 /\ Head(text) = "-"
             body   == IF neg THEN Tail(text) ELSE text
             point  == Find(body, ".", 1)
             whole  == IF point = 0 THEN body ELSE SubSeq(body, 1, point - 1)
             frac   == IF point = 0 THEN "" ELSE SubSeq(body, point + 1, Len(body))
             ticks  == ToInt(frac) * Pow10(7 - Len(frac))
         IN  IF IsDigits(whole) /\ Len(frac) <= 7 /\ (Len(frac) = 0 \/ IsDigits(frac))
             THEN IF neg THEN Num(-ToInt(whole), -ticks) ELSE Num(ToInt(whole), ticks)
             ELSE NaN

Periods == 1..6

\* report.py:248-254: the text of the first seven cells of each row after the
\* header block
NetsuiteData(rows) ==
    LET body == SubSeq(rows, HeaderRows + 1, Len(rows))
    IN  Forced([i \in 1..Len(body) |->
            IF Len(body[i]) > ReportColumns THEN SubSeq(body[i], 1, ReportColumns)
            ELSE body[i]])

\* report.py:257: pd.DataFrame(netsuite_data, columns=[seven names]) raises
\* unless the data is empty or its longest row has seven cells
FrameRaises(data) ==
    data # <<>> /\ \A i \in 1..Len(data) : Len(data[i]) < ReportColumns

CellOrNone(row, k) == IF k <= Len(row) THEN row[k] ELSE None

\* report.py:257-262: the NetSuite frame: the vendor, six numbers
NetsuiteFrame(data) ==
    Forced([i \in 1..Len(data) |->
        [vendor |-> CellOrNone(data[i], 1),
         values |-> Forced([k \in Periods |-> ToNumeric(CellOrNone(data[i], k + 1))])]])

NaNs == Forced([k \in Periods |-> NaN])

RowsOf(frame, vendor) ==
    LET Match(r) == r.vendor = vendor IN SelectSeq(frame, Match)

\* the rows of an outer merge for one key: every pairing of the left rows with
\* the right rows, or the rows of the one side with NaN for the other
MergeKey(left, right, vendor) ==
    LET l == RowsOf(left, vendor)
        r == RowsOf(right, vendor)
    IN  IF r = <<>>
        THEN Forced([i \in 1..Len(l) |->
                 [vendor |-> vendor, ramp |-> l[i].values, netsuite |-> NaNs]])
        ELSE IF l = <<>>
        THEN Forced([j \in 1..Len(r) |->
                 [vendor |-> vendor, ramp |-> NaNs, netsuite |-> r[j].values]])
        ELSE Forced([n \in 1..(Len(l) * Len(r)) |->
                 [vendor   |-> vendor,
                  ramp     |-> l[((n - 1) \div Len(r)) + 1].values,
                  netsuite |-> r[((n - 1) % Len(r)) + 1].values]])

RECURSIVE MergeKeys(_, _, _)
MergeKeys(left, right, keys) ==
    IF Len(keys) = 0 THEN <<>>
    ELSE MergeKey(left, right, Head(keys)) \o MergeKeys(left, right, Tail(keys))

\* report.py:269: pd.merge(ramp_df, netsuite_df, on='vendor', how='outer'),
\* the keys in ascending order
Merge(left, right) ==
    MergeKeys(left, right,
              SortedStrings({x.vendor : x \in Range(left) \cup Range(right)}))

\* a filter that forgets the exact name
ExcludedVendor_PrefixOnly(vendor) == StartsWith(vendor, "IC - ")

\* report.py:272: the vendors filtered out
ExcludedVendor(vendor) == StartsWith(vendor, "IC - ") \/ vendor = "Total"

\* report.py:275-292 for one row: the differences, snapped, and NaN as 0
WithDiff(row, eps) ==
    [vendor   |-> row.vendor,
     ramp     |-> Forced([k \in Periods |-> FillNa(row.ramp[k])]),
     netsuite |-> Forced([k \in Periods |-> FillNa(row.netsuite[k])]),
     diff     |-> Forced([k \in Periods |->
                     FillNa(Snap(NumSub(row.ramp[k], row.netsuite[k]), eps))])]

\* the sorted rows with x put after the rows whose vendor is not above its own
InsertByVendor(sorted, x) ==
    LET k == Cardinality({i \in 1..Len(sorted) : ~StrLess(x.vendor, sorted[i].vendor)})
    IN  SubSeq(sorted, 1, k) \o <<x>> \o SubSeq(sorted, k + 1, Len(sorted))

\* report.py:295: sort_values('vendor')
RECURSIVE SortByVendor(_)
SortByVendor(rows) ==
    IF Len(rows) = 0 THEN <<>>
    ELSE InsertByVendor(SortByVendor(Front(rows)), rows[Len(rows)])

Column(rows, side, k) == Forced([i \in 1..Len(rows) |-> rows[i][side][k]])

\* report.py:298-299
ReconTotalRow(rows) ==
    [vendor   |-> "Total",
     ramp     |-> Forced([k \in Periods |-> NumSum(Column(rows, "ramp", k))]),
     netsuite |-> Forced([k \in Periods |-> NumSum(Column(rows, "netsuite", k))]),
     diff     |-> Forced([k \in Periods |-> NumSum(Column(rows, "diff", k))])]

\* report.py:268-305: the merged frame the function saves and returns
Reconcile(ramp_df, netsuite_df, eps) ==
    LET merged   == Merge(ramp_df, netsuite_df)
        Keep(r)  == ~ExcludedVendor(r.vendor)
        filtered == SelectSeq(merged, Keep)
        diffed   == Forced([i \in 1..Len(filtered) |-> WithDiff(filtered[i], eps)])
        sorted   == SortByVendor(diffed)
    IN  Append(sorted, ReconTotalRow(sorted))

-----------------------------------------------------------------------------
(* Bounds and inputs *)

\* the oldest due date tried, in days before the cutoff
MaxAge == 92

\* the latest due date tried, in days after the cutoff
MaxAhead == 2

TimesOfDay == {0, 12 * 3600, SecondsPerDay - 1}

\* cutoff arguments: month ends, a leap day, a year end, one-digit fields,
\* and three that strptime refuses
CutoffInputs ==
    {"31-08-2024", "29-02-2024", "01-01-2025", "1-3-2023",
     "31-02-2024", "2024-08-31", "31/08/2024"}

\* what a bill's due_at may hold around a cutoff: date and time with and
\* without a zone, a bare date, null, and text that is no date
DueInputs(cut_off) ==
    LET days == (cut_off.day - MaxAge)..(cut_off.day + MaxAhead)
    IN  {IsoFormat(DateTime(d, t)) : d \in days, t \in TimesOfDay}
            \cup {IsoFormat(DateTime(d, 0)) \o "+00:00" : d \in days}
            \cup {StrfDate(DateTime(d, 0)) : d \in days}
            \cup {None, "n/a"}

\* the longest frame handed to filter_open_as_of
MaxRows == 2

\* payment moments around a cutoff: a second before, the cutoff itself, a
\* second after (which is the next day), as text; null; text that is no date
PaidInputs(cut_off) ==
    {IsoFormat(DateTime(cut_off.day, cut_off.sec - 1)),
     IsoFormat(cut_off) \o "Z",
     IsoFormat(DateTime(cut_off.day + 1, 0)) \o "+00:00",
     None, "n/a"}

NoPayment == [is_dict |-> FALSE, has_key |-> FALSE, effective_date |-> None]

\* the payment cell: null, a dict without the key, a dict with the key
PaymentInputs(cut_off) ==
    {NoPayment, [is_dict |-> TRUE, has_key |-> FALSE, effective_date |-> None]}
        \cup {[is_dict |-> TRUE, has_key |-> TRUE, effective_date |-> v] :
                 v \in PaidInputs(cut_off)}

RECURSIVE SeqsUpTo(_, _)
SeqsUpTo(S, n) ==
    IF n = 0 THEN {<<>>}
    ELSE LET shorter == SeqsUpTo(S, n - 1)
         IN  shorter \cup {Append(q, x) : q \in {r \in shorter : Len(r) = n - 1},
                                             x \in S}

\* the frames of one to MaxRows bills, each row with its position as id
FilterFrames(cut_off) ==
    LET cells == PaymentInputs(cut_off) \X PaidInputs(cut_off)
    IN  {Forced([i \in 1..Len(q) |->
                    [id |-> i, payment |-> q[i][1], paid_at |-> q[i][2]]]) :
            q \in SeqsUpTo(cells, MaxRows) \ {<<>>}}

\* the most bills one get_bills response holds
MaxBills == 2

\* get_entities: the entities of the business
Entities ==
    <<[id |-> "ent_1", entity_name |-> "Alpha Services LLC"],
      [id |-> "ent_2", entity_name |-> "Beta Holdings"]>>

NestedVendor(name) == [kind |-> "dict", has_remote_name |-> TRUE, value |-> name]
FlatVendor(name) == [kind |-> "str", has_remote_name |-> FALSE, value |-> name]
NullVendor == [kind |-> "none", has_remote_name |-> FALSE, value |-> None]

Unpaid == [is_dict |-> TRUE, has_key |-> TRUE, effective_date |-> None]
PaidOn(dt) == [is_dict |-> TRUE, has_key |-> TRUE, effective_date |-> IsoFormat(dt)]

Bill(vendor, amount, due_at, payment, paid_at) ==
    [vendor |-> vendor, amount |-> amount, due_at |-> due_at,
     issued_at |-> "2024-01-15T00:00:00+00:00",
     payment |-> payment, paid_at |-> paid_at]

\* the bills a response is made of: both shapes of vendor and of amount; due
\* dates in Current, (60) and (>90) and a bill with no due date; bills never
\* paid, paid after the cutoff and paid at the cutoff; a record with no vendor
BillInputs(cut_off) ==
    LET Day(n) == DateTime(cut_off.day - n, 0)
    IN  {Bill(NestedVendor(" Acme Supply "), [is_dict |-> TRUE, amount |-> 10000],
              IsoFormat(Day(-1)) \o "+00:00", Unpaid, None),
         Bill(NestedVendor("Acme Supply"), [is_dict |-> TRUE, amount |-> 20000],
              IsoFormat(Day(30)), PaidOn(Day(-1)), IsoFormat(Day(-1))),
         Bill(FlatVendor("acme supply"), [is_dict |-> FALSE, amount |-> 300],
              StrfDate(Day(90)), NoPayment, None),
         Bill(FlatVendor("Zeta"), [is_dict |-> FALSE, amount |-> 700],
              None, NoPayment, None),
         Bill(NestedVendor("Acme Supply"), [is_dict |-> TRUE, amount |-> 40000],
              IsoFormat(Day(60)), PaidOn(cut_off), None),
         Bill(NullVendor, [is_dict |-> FALSE, amount |-> 100],
              StrfDate(Day(0)), NoPayment, None)}

WithIds(q) == Forced([i \in 1..Len(q) |-> q[i] @@ ("id" :> i)])

\* what get_bills does: raise_for_status raises, or the 'data' list comes back
GetBillsResponses(cut_off) ==
    {[ok |-> FALSE, data |-> <<>>]}
        \cup {[ok |-> TRUE, data |-> WithIds(q)] :
                 q \in SeqsUpTo(BillInputs(cut_off), MaxBills)}

\* the most data rows a reconciliation source holds
MaxReportRows == 2

\* a file that the call under study does not read
NoFile == [readable |-> FALSE, columns |-> 0, rows |-> <<>>]

\* a bare return, or the frame returned
ReturnsNone == [is_none |-> TRUE, frame |-> <<>>]
Returns(frame) == [is_none |-> FALSE, frame |-> frame]

\* the six period cells of a row with amounts in Current and in (>90)
PeriodCells(current, over90, total, zero) == <<current, zero, zero, zero, over90, total>>

\* data rows of the Ramp CSV as read_csv types them: two rows of one vendor, a
\* hair and a visible amount above the NetSuite figure; a vendor NetSuite may
\* lack; the Total row the aging report ends with
RampRowInputs ==
    {[vendor |-> "Acme", values |-> PeriodCells(Num(100, 5), Num(0, 0), Num(100, 5), Num(0, 0))],
     [vendor |-> "Acme", values |-> PeriodCells(Num(100, 500), Num(0, 0), Num(100, 500), Num(0, 0))],
     [vendor |-> "Zeta", values |-> PeriodCells(Num(0, 0), Num(50, 2500000), Num(50, 2500000), NaN)],
     [vendor |-> "Total",
      values |-> PeriodCells(Num(100, 5), Num(50, 2500000), Num(150, 2500005), Num(0, 0))]}

\* the Ramp CSV: unreadable, readable with a column too many, or the data rows
RampReports ==
    {[readable |-> FALSE, columns |-> 0, rows |-> <<>>],
     [readable |-> TRUE, columns |-> ReportColumns + 1, rows |-> <<>>]}
        \cup {[readable |-> TRUE, columns |-> ReportColumns, rows |-> q] :
                 q \in SeqsUpTo(RampRowInputs, MaxReportRows)}

\* rows of the NetSuite sheet, cell by cell: plain figures; currency with a
\* thousands separator, empty cells and text; a short row; an eighth cell;
\* an intercompany row and the sheet's own Total
NetsuiteRowInputs ==
    {<<"Acme">> \o PeriodCells("100.00", "0.00", "100.00", "0.00"),
     <<"Acme">> \o PeriodCells("$1,234.50", "n/a", "$1,234.50", ""),
     <<"Beta", "75.00", "0.00">>,
     <<"Zeta">> \o PeriodCells("0.00", "50.25", "50.25", "0.00") \o <<"memo">>,
     <<"IC - Beta Holdings">> \o PeriodCells("10.00", "0.00", "10.00", "0.00"),
     <<"Total">> \o PeriodCells("1,419.50", "50.25", "1,469.75", "0.00")}

\* the title and header block above the data rows
HeaderBlock == Forced([i \in 1..HeaderRows |-> <<"A/P Aging Summary">>])

\* the NetSuite file: not XML, or the sheet's rows
NetsuiteReports ==
    {[readable |-> FALSE, columns |-> 0, rows |-> <<>>]}
        \cup {[readable |-> TRUE, columns |-> ReportColumns, rows |-> HeaderBlock \o q] :
                 q \in SeqsUpTo(NetsuiteRowInputs, MaxReportRows)}

\* main.py:12
output_path == "reconciliation_report.csv"

\* the cutoff arguments of the report runs: main.py:4, and one that strptime
\* refuses
ReportDates == {"31-08-2024", "31-02-2024"}

-----------------------------------------------------------------------------
(* The cutoff, the column names and the label of one bill:                 *)
(* report.py:51-52, 100 and 88 on a one-row frame                          *)

InitClassify ==
    /\ pc = "start"
    /\ specified_date \in CutoffInputs
    /\ cut_off_date_iso8601 = ""
    /\ cut_off_date = NaT
    /\ sorted_columns = <<>>
    /\ df = <<>>
    /\ df_open = <<>>
    /\ aging_bucket = ""
    /\ entity_idx = 0
    /\ outcome = <<>>
    /\ files = {}
    /\ combined_bills_data = <<>>
    /\ aging_report = <<>>
    /\ ramp_report = NoFile
    /\ netsuite_report = NoFile
    /\ result = ReturnsNone

\* report.py:51-52; a ValueError of strptime ends the call
Cutoff ==
    /\ pc = "start"
    /\ LET iso == convert_to_iso8601(specified_date)
       IN  IF iso.ok
           THEN /\ cut_off_date_iso8601' = iso.value
                /\ cut_off_date' = StrpIso8601Z(iso.value)
                /\ pc' = "cutoff"
           ELSE /\ pc' = "raised"
                /\ UNCHANGED <<cut_off_date_iso8601, cut_off_date>>
    /\ UNCHANGED <<specified_date, sorted_columns, df, df_open, aging_bucket,
                   entity_idx, outcome, files, combined_bills_data, aging_report, ramp_report, netsuite_report, result>>

\* report.py:100
ColumnNames ==
    /\ pc = "cutoff"
    /\ sorted_columns' = generate_column_names(cut_off_date)
    /\ pc' = "columns"
    /\ UNCHANGED <<specified_date, cut_off_date_iso8601, cut_off_date, df, df_open,
                   aging_bucket, entity_idx, outcome, files, combined_bills_data, aging_report, ramp_report, netsuite_report, result>>

\* report.py:73 and 88 for a frame of one bill
Classify ==
    /\ pc = "columns"
    /\ \E v \in DueInputs(cut_off_date) :
          LET row == [raw_due_at |-> v, due_at |-> ToDatetime(v)]
          IN  /\ df' = <<row>>
              /\ aging_bucket' = categorize_aging(row, cut_off_date)
    /\ pc' = "classified"
    /\ UNCHANGED <<specified_date, cut_off_date_iso8601, cut_off_date,
                   sorted_columns, df_open, entity_idx, outcome, files, combined_bills_data, aging_report, ramp_report, netsuite_report, result>>

NextClassify == Cutoff \/ ColumnNames \/ Classify

SpecClassify == InitClassify /\ [][NextClassify]_vars

-----------------------------------------------------------------------------
(* filter_open_as_of on a frame of bills, report.py:81 *)

InitFilter == InitClassify

FilterOpen ==
    /\ pc = "cutoff"
    /\ \E frame \in FilterFrames(cut_off_date) :
          /\ df' = frame
          /\ df_open' = filter_open_as_of(frame, cut_off_date)
    /\ pc' = "filtered"
    /\ UNCHANGED <<specified_date, cut_off_date_iso8601, cut_off_date,
                   sorted_columns, aging_bucket, entity_idx, outcome, files,
                   combined_bills_data, aging_report, ramp_report, netsuite_report, result>>

NextFilter == Cutoff \/ FilterOpen

SpecFilter == InitFilter /\ [][NextFilter]_vars

-----------------------------------------------------------------------------
(* generate_entity_reports and generate_combined_report, report.py:42-215  *)

InitAging ==
    /\ pc = "start"
    /\ specified_date \in ReportDates
    /\ cut_off_date_iso8601 = ""
    /\ cut_off_date = NaT
    /\ sorted_columns = <<>>
    /\ df = <<>>
    /\ df_open = <<>>
    /\ aging_bucket = ""
    /\ entity_idx = 0
    /\ outcome = [i \in 1..Len(Entities) |-> "pending"]
    /\ files = {}
    /\ combined_bills_data = <<>>
    /\ aging_report = <<>>
    /\ ramp_report = NoFile
    /\ netsuite_report = NoFile
    /\ result = ReturnsNone

\* report.py:48-55 and 135-142: the token, the cutoff, the entities; any of
\* the three may raise, which ends the call
BeginReport ==
    /\ pc = "start"
    /\ \E token_ok \in BOOLEAN, entities_ok \in BOOLEAN :
          LET iso == convert_to_iso8601(specified_date)
          IN  IF token_ok /\ iso.ok /\ entities_ok
              THEN /\ cut_off_date_iso8601' = iso.value
                   /\ cut_off_date' = StrpIso8601Z(iso.value)
                   /\ pc' = "ready"
              ELSE /\ pc' = "raised"
                   /\ UNCHANGED <<cut_off_date_iso8601, cut_off_date>>
    /\ UNCHANGED <<specified_date, sorted_columns, df, df_open, aging_bucket,
                   entity_idx, outcome, files, combined_bills_data, aging_report,
                   ramp_report, netsuite_report, result>>

\* report.py:58-124: the body of the loop of generate_entity_reports for the
\* next entity. Nothing in the loop catches: an exception of get_bills or of
\* the vendor lambda leaves the function.
EntityIteration ==
    /\ pc \in {"ready", "entity_loop"}
    /\ entity_idx < Len(Entities)
    /\ LET i           == entity_idx + 1
           entity_name == Entities[i].entity_name
       IN  \E bills \in GetBillsResponses(cut_off_date) :
             IF ~bills.ok
             THEN /\ pc' = "raised"
                  /\ outcome' = [outcome EXCEPT ![i] = "raised"]
                  /\ UNCHANGED <<entity_idx, df, df_open, files, sorted_columns,
                                 aging_report>>
             ELSE IF bills.data = <<>>
             THEN /\ pc' = "entity_done"
                  /\ entity_idx' = i
                  /\ outcome' = [outcome EXCEPT ![i] = "no bills data"]
                  /\ UNCHANGED <<df, df_open, files, sorted_columns, aging_report>>
             ELSE IF \E b \in Range(bills.data) : VendorRaises(b)
             THEN /\ pc' = "raised"
                  /\ outcome' = [outcome EXCEPT ![i] = "raised"]
                  /\ files' = files \cup {RawFileName(entity_name, specified_date)}
                  /\ UNCHANGED <<entity_idx, df, df_open, sorted_columns,
                                 aging_report>>
             ELSE LET frame == NormalizeAll(bills.data)
                      open  == filter_open_as_of(frame, cut_off_date)
                  IN  /\ df' = frame
                      /\ df_open' = open
                      /\ entity_idx' = i
                      /\ pc' = "entity_done"
                      /\ IF open = <<>>
                         THEN /\ outcome' = [outcome EXCEPT ![i] = "no open bills"]
                              /\ files' = files
                                    \cup {RawFileName(entity_name, specified_date)}
                              /\ UNCHANGED <<sorted_columns, aging_report>>
                         ELSE /\ outcome' = [outcome EXCEPT ![i] = "report"]
                              /\ sorted_columns' = generate_column_names(cut_off_date)
                              /\ aging_report' = AgingReport(open, cut_off_date)
                              /\ files' = files
                                    \cup {RawFileName(entity_name, specified_date),
                                          ReportFileName(entity_name, specified_date)}
    /\ UNCHANGED <<specified_date, cut_off_date_iso8601, cut_off_date, aging_bucket,
                   combined_bills_data, ramp_report,
                   netsuite_report, result>>

\* report.py:58: the for statement moves on, or the loop and the function
\* end; the frames and the table of the finished pass are dropped
EntityNext ==
    /\ pc = "entity_done"
    /\ pc' = IF entity_idx = Len(Entities) THEN "done" ELSE "entity_loop"
    /\ df' = <<>>
    /\ df_open' = <<>>
    /\ sorted_columns' = <<>>
    /\ aging_report' = <<>>
    /\ UNCHANGED <<specified_date, cut_off_date_iso8601, cut_off_date, aging_bucket,
                   entity_idx, outcome, files, combined_bills_data, ramp_report,
                   netsuite_report, result>>

\* report.py:148-171: the body of the loop of generate_combined_report for
\* the next entity; df and df_open live for this pass only
CombinedIteration ==
    /\ pc \in {"ready", "combined_loop"}
    /\ entity_idx < Len(Entities)
    /\ LET i == entity_idx + 1
       IN  \E bills \in GetBillsResponses(cut_off_date) :
             IF ~bills.ok \/ \E b \in Range(bills.data) : VendorRaises(b)
             THEN /\ pc' = "raised"
                  /\ outcome' = [outcome EXCEPT ![i] = "raised while gathering"]
                  /\ UNCHANGED <<entity_idx, combined_bills_data>>
             ELSE /\ pc' = "combined_loop"
                  /\ entity_idx' = i
                  /\ outcome' = [outcome EXCEPT ![i] = "gathered"]
                  /\ combined_bills_data' =
                        IF bills.data = <<>> THEN combined_bills_data
                        ELSE combined_bills_data
                                 \o filter_open_as_of(NormalizeAll(bills.data),
                                                      cut_off_date)
    /\ UNCHANGED <<specified_date, cut_off_date_iso8601, cut_off_date, aging_bucket,
                   df, df_open, files, sorted_columns, aging_report, ramp_report, netsuite_report, result>>

\* report.py:173-215: after the loop, the table of everything gathered
CombinedTable ==
    /\ pc = "combined_loop"
    /\ entity_idx = Len(Entities)
    /\ IF combined_bills_data = <<>>
       THEN /\ pc' = "done_empty"
            /\ UNCHANGED <<files, sorted_columns, aging_report>>
       ELSE /\ pc' = "done_combined"
            /\ sorted_columns' = generate_column_names(cut_off_date)
            /\ aging_report' = AgingReport(combined_bills_data, cut_off_date)
            /\ files' = files \cup {CombinedFileName(specified_date)}
    /\ UNCHANGED <<specified_date, cut_off_date_iso8601, cut_off_date, aging_bucket,
                   df, df_open, entity_idx, outcome, combined_bills_data, ramp_report,
                   netsuite_report, result>>

NextAging ==
    BeginReport \/ EntityIteration \/ EntityNext \/ CombinedIteration \/ CombinedTable

SpecAging == InitAging /\ [][NextAging]_vars

-----------------------------------------------------------------------------
(* generate_reconciliation_report, report.py:231-312 *)

InitRecon ==
    /\ pc = "start"
    /\ specified_date = ""
    /\ cut_off_date_iso8601 = ""
    /\ cut_off_date = NaT
    /\ sorted_columns = <<>>
    /\ df = <<>>
    /\ df_open = <<>>
    /\ aging_bucket = ""
    /\ entity_idx = 0
    /\ outcome = <<>>
    /\ files = {}
    /\ combined_bills_data = <<>>
    /\ aging_report = <<>>
    /\ ramp_report \in RampReports
    /\ netsuite_report \in NetsuiteReports
    /\ result = ReturnsNone

\* report.py:231-312, one call. read_csv and the assignment of the seven
\* column names stand before the try statement and raise; whatever the
\* NetSuite block raises is caught, and the function returns bare.
GenerateReconciliationReport ==
    /\ pc = "start"
    /\ IF ~ramp_report.readable \/ ramp_report.columns # ReportColumns
       THEN /\ pc' = "raised"
            /\ UNCHANGED <<files, result>>
       ELSE LET netsuite_data == NetsuiteData(netsuite_report.rows)
            IN  IF ~netsuite_report.readable \/ FrameRaises(netsuite_data)
                THEN /\ pc' = "returned"
                     /\ result' = ReturnsNone
                     /\ UNCHANGED files
                ELSE /\ pc' = "returned"
                     /\ result' = Returns(Reconcile(ramp_report.rows,
                                                    NetsuiteFrame(netsuite_data),
                                                    Epsilon))
                     /\ files' = files \cup {output_path}
    /\ UNCHANGED <<specified_date, cut_off_date_iso8601, cut_off_date, sorted_columns,
                   df, df_open, aging_bucket, entity_idx, outcome,
                   combined_bills_data, aging_report, ramp_report, netsuite_report>>

NextRecon == GenerateReconciliationReport

SpecRecon == InitRecon /\ [][NextRecon]_vars

-----------------------------------------------------------------------------
(* Claims about the cutoff and the classification, under SpecClassify      *)

\* the whole days of a - b: the floor of the difference in seconds
WholeDays(a, b) ==
    ((a.day - b.day) * SecondsPerDay + (a.sec - b.sec)) \div SecondsPerDay

\* the position, among the five bucket columns, the claim gives a delta
ClaimedPosition(delta) ==
    IF delta < 0 THEN 1
    ELSE IF delta < 30 THEN 2
    ELSE IF delta < 60 THEN 3
    ELSE IF delta < 90 THEN 4
    ELSE 5

EndsWith(s, suffix) ==
    Len(s) >= Len(suffix) /\ SubSeq(s, Len(s) - Len(suffix) + 1, Len(s)) = suffix

ClaimedSuffix(position) ==
    CASE position = 1 -> "Current"
      [] position = 2 -> " (30)"
      [] position = 3 -> " (60)"
      [] position = 4 -> " (90)"
      [] OTHER -> " (>90)"

Classified == pc = "classified" /\ ~df[1].due_at.nat

\* C1: for every cutoff and every due_at that is a date, categorize_aging
\* returns the entry of generate_column_names(cutoff) that the whole days of
\* cutoff - due_at select (Current below 0, then (30), (60), (90) in steps of
\* 30 days, (>90) from 90 on), and that label is exactly one of the five
\* bucket columns.
C1_LabelIsTheColumnOfItsDelta ==
    Classified =>
        LET delta    == WholeDays(cut_off_date, df[1].due_at)
            position == ClaimedPosition(delta)
        IN  /\ aging_bucket = sorted_columns[1 + position]
            /\ EndsWith(aging_bucket, ClaimedSuffix(position))
            /\ Cardinality({i \in 2..6 : sorted_columns[i] = aging_bucket}) = 1

\* a bill exactly 30 days past due, at a time of day other than midnight,
\* labelled with the (60) column
C1_Witness ==
    /\ Classified
    /\ WholeDays(cut_off_date, df[1].due_at) = 30
    /\ df[1].due_at.sec > 0
    /\ aging_bucket = sorted_columns[4]

DueOn(date) == Classified /\ StrfDate(df[1].due_at) = date

\* C10 as amended: for the cutoff string 31-08-2024 the cutoff is
\* 2024-08-31T23:59:59Z; a bill due 2024-08-01 has delta 30 and the label
\* "2024-07-03 - 2024-08-01 (60)"; a bill due 2024-09-01 has delta -1 and the
\* label "Current".
C10_ExampleLabels ==
    (pc = "classified" /\ specified_date = "31-08-2024") =>
        /\ cut_off_date_iso8601 = "2024-08-31T23:59:59Z"
        /\ DueOn("2024-08-01") =>
              /\ WholeDays(cut_off_date, df[1].due_at) = 30
              /\ aging_bucket = "2024-07-03 - 2024-08-01 (60)"
        /\ DueOn("2024-09-01") =>
              /\ WholeDays(cut_off_date, df[1].due_at) = -1
              /\ aging_bucket = "Current"

C10_Witness ==
    /\ specified_date = "31-08-2024"
    /\ DueOn("2024-08-01")
    /\ aging_bucket = "2024-07-03 - 2024-08-01 (60)"

\* C10 as stated: the bill due 2024-08-01 is labelled
\* "2024-06-03 - 2024-08-02 (60)".
C10_AsStated ==
    (pc = "classified" /\ specified_date = "31-08-2024") =>
        /\ cut_off_date_iso8601 = "2024-08-31T23:59:59Z"
        /\ DueOn("2024-08-01") =>
              /\ WholeDays(cut_off_date, df[1].due_at) = 30
              /\ aging_bucket = "2024-06-03 - 2024-08-02 (60)"
        /\ DueOn("2024-09-01") =>
              /\ WholeDays(cut_off_date, df[1].due_at) = -1
              /\ aging_bucket = "Current"

-----------------------------------------------------------------------------
(* Claims about the openness filter, under SpecFilter *)

\* the preferred payment date of the claim: payment.effective_date when it
\* has a value, paid_at otherwise
PreferredDate(x) ==
    IF x.payment.is_dict /\ x.payment.has_key /\ x.payment.effective_date # None
    THEN x.payment.effective_date
    ELSE x.paid_at

Kept(i) == \E j \in 1..Len(df_open) : df_open[j].id = i

\* C2: filter_open_as_of keeps a bill if and only if its preferred payment
\* date (payment.effective_date when that has a value, paid_at otherwise) is
\* absent or strictly later than the cutoff.
C2_KeptIffPreferredDateAbsentOrLater ==
    pc = "filtered" =>
        \A i \in 1..Len(df) :
            Kept(i) <=> LET preferred == ToDatetime(PreferredDate(df[i]))
                        IN  preferred.nat \/ After(preferred, cut_off_date)

-----------------------------------------------------------------------------
(* Claims about the aging tables and the entity loop, under SpecAging *)

EntityTableWritten == pc = "entity_done" /\ outcome[entity_idx] = "report"

CombinedTableWritten == pc = "done_combined"

TableWritten == EntityTableWritten \/ CombinedTableWritten

\* the open bills the table just written was built from
OpenBills == IF CombinedTableWritten THEN combined_bills_data ELSE df_open

VendorRows == Front(aging_report.rows)

TotalsRow == aging_report.rows[Len(aging_report.rows)]

\* the sum of the amounts of the bills that satisfy Test
SumWhere(bills, Test(_)) ==
    LET Amount(k) == IF Test(bills[k]) THEN bills[k].amount ELSE 0
    IN  SumSeq([k \in 1..Len(bills) |-> Amount(k)])

\* whether an open bill of the vendor may belong to the bucket at `position`
\* of the five: by its delta, or anywhere when it has no due date
MayFallIn(bill, vendor, position) ==
    /\ bill.vendor_name = vendor
    /\ bill.due_at.nat
         \/ ClaimedPosition(WholeDays(cut_off_date, bill.due_at)) = position

\* C4: in every aging table of generate_entity_reports and of
\* generate_combined_report, each vendor row's Total is the sum of its five
\* bucket cells, the last row is named Total and holds in every numeric column
\* the sum of that column over the vendor rows, and a vendor and bucket with
\* no open bills has cell 0.
C4_TotalsAreSums ==
    TableWritten =>
        /\ Len(aging_report.columns) = 7
        /\ aging_report.columns[1] = "Vendor Name"
        /\ aging_report.columns[7] = "Total"
        /\ \A r \in Range(VendorRows) :
              /\ r[7] = r[2] + r[3] + r[4] + r[5] + r[6]
              /\ \A position \in 1..5 :
                    (\A b \in Range(OpenBills) : ~MayFallIn(b, r[1], position))
                        => r[1 + position] = 0
        /\ TotalsRow[1] = "Total"
        /\ \A k \in 2..7 :
              TotalsRow[k] = SumSeq([i \in 1..Len(VendorRows) |-> VendorRows[i][k]])

\* a combined table of two vendors or more in which one vendor has amounts
\* in two buckets
C4_Witness ==
    /\ CombinedTableWritten
    /\ Len(VendorRows) >= 2
    /\ \E r \in Range(VendorRows) : r[2] > 0 /\ r[4] > 0 /\ r[7] = r[2] + r[4]

\* C8: a failure while one entity is processed does not end the loop of
\* generate_entity_reports: when the function has ended, no entity after a
\* failed one is left unprocessed.
C8_FailureDoesNotStopTheLoop ==
    pc \in {"raised", "done"} =>
        \A i \in 1..Len(Entities), j \in 1..Len(Entities) :
            (i < j /\ outcome[i] = "raised") => outcome[j] # "pending"

HasDueDate(bill) == ~bill.due_at.nat

Over90(bill) ==
    HasDueDate(bill) /\ ClaimedPosition(WholeDays(cut_off_date, bill.due_at)) = 5

\* C9: an open bill with no due date is skipped: its amount is in none of the
\* bucket cells and in no Total cell of the entity or combined table, so the
\* table's totals are those of the open bills that have a due date.
C9_BillWithoutDueDateIsSkipped ==
    TableWritten =>
        /\ TotalsRow[7] = SumWhere(OpenBills, HasDueDate)
        /\ TotalsRow[6] = SumWhere(OpenBills, Over90)

-----------------------------------------------------------------------------
(* Claims about the reconciliation, under SpecRecon *)

Reconciled == pc = "returned" /\ ~result.is_none

ReconVendorRows == Front(result.frame)

ReconTotals == result.frame[Len(result.frame)]

\* the vendor names the claims call excluded
NamedExcluded(vendor) ==
    (Len(vendor) >= 5 /\ SubSeq(vendor, 1, 5) = "IC - ") \/ vendor = "Total"

RampVendors == {r.vendor : r \in Range(ramp_report.rows)}

NetsuiteVendors == {r[1] : r \in Range(NetsuiteData(netsuite_report.rows))}

\* C3: in every vendor row of the reconciliation and for each of the six
\* periods, the diff cell is the row's ramp cell minus the row's netsuite
\* cell, 0 when that difference is below epsilon in absolute value; so a
\* vendor of one source only, with value v, has diff v or -v.
C3_DiffIsRampMinusNetsuite ==
    Reconciled =>
        \A r \in Range(ReconVendorRows) : \A k \in Periods :
            r.diff[k] = Snap(NumSub(r.ramp[k], r.netsuite[k]), Epsilon)

WithoutExcluded(rows) == LET Keep(r) == ~NamedExcluded(r.vendor) IN SelectSeq(rows, Keep)

\* C5: no vendor row of the reconciliation is named "IC - ..." or "Total",
\* the one row named "Total" is the totals row appended last, every cell of
\* that row is the sum of the vendor rows above it, and the whole output is
\* the output for the same sources without their excluded rows.
C5_ExcludedRowsAreGoneAndCountForNothing ==
    Reconciled =>
        /\ \A r \in Range(ReconVendorRows) : ~NamedExcluded(r.vendor)
        /\ ReconTotals.vendor = "Total"
        /\ \A k \in Periods :
              /\ ReconTotals.ramp[k] = NumSum(Column(ReconVendorRows, "ramp", k))
              /\ ReconTotals.netsuite[k] = NumSum(Column(ReconVendorRows, "netsuite", k))
              /\ ReconTotals.diff[k] = NumSum(Column(ReconVendorRows, "diff", k))
        /\ result.frame =
              Reconcile(WithoutExcluded(ramp_report.rows),
                        WithoutExcluded(NetsuiteFrame(NetsuiteData(netsuite_report.rows))),
                        Epsilon)

\* C5 witness: both sources hold an excluded row, one "Total" and one
\* "IC - ...", next to a vendor whose amounts reach the totals row.
C5_Witness ==
    /\ Reconciled
    /\ "Total" \in RampVendors
    /\ "IC - Beta Holdings" \in NetsuiteVendors
    /\ \E v \in NetsuiteVendors : ~NamedExcluded(v)
    /\ \E v \in RampVendors : ~NamedExcluded(v)
    /\ ReconTotals.ramp[1].w > 0
    /\ ReconTotals.netsuite[1].w > 0

\* C6: the reconciliation has exactly one vendor row for each distinct
\* non-excluded vendor name of either source, also when a name stands on
\* several rows of a source, and every vendor row carries a name of a source.
C6_OneRowPerVendorName ==
    Reconciled =>
        /\ \A v \in RampVendors \cup NetsuiteVendors :
              ~NamedExcluded(v) =>
                  Cardinality({i \in 1..Len(ReconVendorRows) :
                                  ReconVendorRows[i].vendor = v}) = 1
        /\ \A r \in Range(ReconVendorRows) : r.vendor \in RampVendors \cup NetsuiteVendors

SourceFails ==
    \/ ~ramp_report.readable
    \/ ramp_report.columns # ReportColumns
    \/ ~netsuite_report.readable
    \/ FrameRaises(NetsuiteData(netsuite_report.rows))

\* C7: when the Ramp CSV or the NetSuite sheet cannot be read or parsed, the
\* call returns an error outcome, raises nothing and writes no file.
C7_SourceFailureIsReturnedNotRaised ==
    (pc # "start" /\ SourceFails) =>
        (pc = "returned" /\ result.is_none /\ files = {})

====
